---- MODULE Spec2Model ----
(***************************************************************************)
(* Model of the FastAPI To-Do service (src/main.py, src/database.py).      *)
(*                                                                         *)
(* The table "todos" is a set of rows; the five request handlers are the   *)
(* actions.  Spec runs the handlers one request at a time (each action is  *)
(* one whole request: dependency get_db, validation, handler, cleanup).    *)
(* SpecConc runs the same handlers on several dispatcher threads, one      *)
(* storage statement per step, so that lookups and commits of different    *)
(* requests interleave.                                                    *)
(*                                                                         *)
(* Two things the source leaves to its surroundings are chosen in Init and  *)
(* never change: the pydantic major version the import resolves to, and    *)
(* the content of the database file found at start (create_all at line 11  *)
(* runs before ToDoDB is declared, so the program itself creates no table).*)
(*                                                                         *)
(* An optional value (a JSON key that may be absent, the result of         *)
(* Query.first()) is modelled by a set with at most one element.           *)
(***************************************************************************)
EXTENDS Integers, Sequences, FiniteSets, TLC

\* ---------------------------------------------------------------- bounds

\* Number of rows ever inserted into the table (Spec), and the largest id.
MaxCreates == 2
\* Number of requests started in a run of SpecConc.
MaxRequests == 3
\* Dispatcher threads of SpecConc.
NumWorkers == 2

\* Python's None; distinct from every string of the payload domain.
None == "None"

Titles == {"a", "b"}
Descriptions == {"d"}

\* Path parameter todo_id used by the requests.
Ids == 1..MaxCreates

\* Request bodies: each JSON key carries the set of its values, empty when
\* the key is absent from the body.  A body gives a title only, or all fields.
RawTitles == {{}, {None}} \cup {{t} : t \in Titles}
RawDescriptions == {{}} \cup {{d} : d \in Descriptions}
RawCompleted == {{}, {TRUE}}
Bodies ==
    {b \in [title : RawTitles, description : RawDescriptions, completed : RawCompleted] :
        b.description = {} <=> b.completed = {}}

\* Bodies and ids used by the concurrent dispatcher.
ConcBodies ==
    {b \in Bodies : /\ b.title # {None}
                     /\ b.description = {}
                     /\ b.completed = {}}
ConcIds == {1}

NoBody == [title |-> {}, description |-> {}, completed |-> {}]

Workers == 1..NumWorkers
\* Session token of the sequential dispatcher.
Seq0 == 0

VARIABLES
    pydantic,      \* "v1" or "v2": the pydantic that `from pydantic import BaseModel` finds
    hasTable,      \* whether the database file holds the table todos
    persisted,     \* the rows the database file held at start
    nInserts,      \* Spec: number of rows inserted so far, the persisted ones included
    rows,          \* the table todos: a set of rows [id, title, description, completed]
    open,          \* sessions opened by get_db and not yet closed
    req,           \* Spec: the request just served
    resp,          \* Spec: its response
    createdIds,    \* Spec: ids returned by the successful Creates, in order
    nDeleted,      \* Spec: number of successful Deletes
    deletedSince,  \* Spec: ids deleted successfully with no Create since
    titleOnly,     \* Spec: rows created from a title-only body, not updated or deleted since
    pc,            \* SpecConc: position of each thread in its request
    wreq,          \* SpecConc: request of each thread
    todo,          \* SpecConc: the object each thread's session holds (as loaded)
    wresp,         \* SpecConc: response of each thread
    started,       \* SpecConc: number of requests started
    closed         \* SpecConc: statuses of the requests over, their session closed

envVars == <<pydantic, hasTable, persisted>>
seqVars == <<req, resp, createdIds, nDeleted, deletedSince, titleOnly, nInserts>>
concVars == <<pc, wreq, todo, wresp, started, closed>>
vars == <<pydantic, hasTable, persisted, nInserts, rows, open, req, resp, createdIds, nDeleted, deletedSince, titleOnly,
          pc, wreq, todo, wresp, started, closed>>

\* ------------------------------------------------------ src/main.py 14-19

get_db_enter(sessions, s) == sessions \cup {s}

get_db_finally_NoFinally(sessions, s, status) ==
    IF status = 200 THEN sessions \ {s} ELSE sessions

\* finally: db.close() runs whatever the handler did.
get_db_finally(sessions, s, status) == sessions \ {s}

\* ------------------------------------------------------ src/main.py 30-33

ToDoSchema_valid_TitleOptional(body) == TRUE

\* title: str is required and may not be null.
ToDoSchema_valid(body) == body.title # {} /\ body.title # {None}

ToDoSchema_dict_Patch(body, current) ==
    [title       |-> IF body.title = {} THEN current.title ELSE CHOOSE t \in body.title : TRUE,
     description |-> IF body.description = {} THEN current.description
                     ELSE CHOOSE d \in body.description : TRUE,
     completed   |-> IF body.completed = {} THEN current.completed
                     ELSE CHOOSE c \in body.completed : TRUE]

\* ToDoSchema(...).dict(): every field, omitted ones at their defaults
\* (description = None, completed = False).  current is the stored row the
\* dict is about to be applied to (unused: the defaults do not depend on it).
ToDoSchema_dict(body, current) ==
    [title       |-> IF body.title = {} THEN None ELSE CHOOSE t \in body.title : TRUE,
     description |-> IF body.description = {} THEN None ELSE CHOOSE d \in body.description : TRUE,
     completed   |-> IF body.completed = {} THEN FALSE ELSE CHOOSE c \in body.completed : TRUE]

NoRow == [id |-> 0, title |-> None, description |-> None, completed |-> FALSE]

\* ------------------------------------------------------ src/main.py 35-39

\* Serialization of an ORM row through the response model (orm_mode).
ToDoResponse(row) ==
    [id |-> row.id, title |-> row.title, description |-> row.description,
     completed |-> row.completed]

\* description: str = None is an optional field under pydantic 1 only; under
\* pydantic 2 the field is a plain str, and a row whose description is None
\* does not validate as a ToDoResponse.
ToDoResponse_valid(row) == pydantic = "v1" \/ row.description # None

\* ------------------------------------------------------ src/main.py 22-27

RowIds(tbl) == {r.id : r \in tbl}

MaxRowid(tbl) == CHOOSE m \in RowIds(tbl) : \A i \in RowIds(tbl) : i <= m

\* id = Column(Integer, primary_key=True) on SQLite is an alias of the rowid
\* (no AUTOINCREMENT): an insert gets the largest id in the table plus one.
NextRowid(tbl) == IF tbl = {} THEN 1 ELSE MaxRowid(tbl) + 1

\* ToDoDB(**todo.dict()); db.add; db.commit: INSERT of the three columns.
insert(tbl, d) ==
    tbl \cup {[id |-> NextRowid(tbl), title |-> d.title, description |-> d.description,
               completed |-> d.completed]}

\* db.query(ToDoDB).filter(ToDoDB.id == todo_id).first()
first(tbl, todo_id) == {r \in tbl : r.id = todo_id}

\* db.query(ToDoDB).all(): a table scan, in rowid order.
RECURSIVE all(_)
all(tbl) ==
    IF tbl = {} THEN <<>>
    ELSE LET r == CHOOSE x \in tbl : \A y \in tbl : x.id <= y.id
         IN <<r>> \o all(tbl \ {r})

\* for key, value in updated_todo.dict().items(): setattr(todo, key, value)
setattr_all(obj, d) ==
    [obj EXCEPT !.title = d.title, !.description = d.description, !.completed = d.completed]

\* Columns whose value differs from the loaded one: the unit of work puts
\* only these in the UPDATE statement.
Changed(loaded, obj) ==
    {k \in {"title", "description", "completed"} : obj[k] # loaded[k]}

\* The flush of a modified object found no row to update (StaleDataError).
flush_stale(tbl, loaded, obj) ==
    Changed(loaded, obj) # {} /\ first(tbl, loaded.id) = {}

flush_update_AlsoNeighbour(tbl, loaded, obj) ==
    {IF r.id = loaded.id \/ r.id = loaded.id + 1
     THEN [k \in DOMAIN r |-> IF k \in Changed(loaded, obj) THEN obj[k] ELSE r[k]]
     ELSE r : r \in tbl}

\* db.commit() of update_todo: UPDATE todos SET <changed columns> WHERE id = ?
flush_update(tbl, loaded, obj) ==
    {IF r.id = loaded.id
     THEN [k \in DOMAIN r |-> IF k \in Changed(loaded, obj) THEN obj[k] ELSE r[k]]
     ELSE r : r \in tbl}

flush_delete_Keep(tbl, loaded) == tbl

\* db.delete(todo); db.commit(): DELETE FROM todos WHERE id = ?
flush_delete(tbl, loaded) == {r \in tbl : r.id # loaded.id}

\* ------------------------------------------------------------- responses

NotFound == [status |-> 404, detail |-> "To-Do not found", rows |-> <<>>]
Invalid == [status |-> 422, detail |-> "validation error", rows |-> <<>>]
Deleted == [status |-> 200, detail |-> "To-Do deleted successfully", rows |-> <<>>]
Ok(rs) == [status |-> 200, detail |-> "", rows |-> rs]
Fault(why) == [status |-> 500, detail |-> why, rows |-> <<>>]
NoResp == [status |-> 0, detail |-> "", rows |-> <<>>]
NoReq == [op |-> "none", id |-> 0, body |-> NoBody]

\* The response of a handler that returns rows rs under response_model: a
\* row that fails the response model's validation makes the response a 500.
Respond(rs) ==
    IF \A i \in 1..Len(rs) : ToDoResponse_valid(rs[i])
    THEN Ok([i \in 1..Len(rs) |-> ToDoResponse(rs[i])])
    ELSE Fault("ResponseValidationError")

\* A statement on a database file without the table todos.
NoTable == Fault("OperationalError")

\* Content of the table at start, when the file holds one: rows written by
\* earlier runs of the service.
PersistedTables ==
    {{}, {[id |-> 1, title |-> "b", description |-> "d", completed |-> TRUE]}}

Init ==
    /\ pydantic \in {"v1", "v2"}
    /\ hasTable \in BOOLEAN
    /\ persisted \in (IF hasTable THEN PersistedTables ELSE {{}})
    /\ rows = persisted
    /\ nInserts = Cardinality(persisted)
    /\ open = {}
    /\ req = NoReq
    /\ resp = NoResp
    /\ createdIds = <<>>
    /\ nDeleted = 0
    /\ deletedSince = {}
    /\ titleOnly = {}
    /\ pc = [w \in Workers |-> "idle"]
    /\ wreq = [w \in Workers |-> NoReq]
    /\ todo = [w \in Workers |-> {}]
    /\ wresp = [w \in Workers |-> NoResp]
    /\ started = 0
    /\ closed = {}

\* ------------------------------------------- the handlers, one per request

\* The session of a whole request: opened by get_db, closed in its finally.
Session(status) == open' = get_db_finally(get_db_enter(open, Seq0), Seq0, status)

\* POST /todos/  (src/main.py 44-50)
create_todo(body) ==
    /\ nInserts < MaxCreates
    /\ NextRowid(rows) <= MaxCreates
    /\ req' = [op |-> "post", id |-> 0, body |-> body]
    /\ IF ~ToDoSchema_valid(body)
       THEN /\ resp' = Invalid
            /\ UNCHANGED <<rows, createdIds, deletedSince, titleOnly, nInserts>>
       ELSE IF ~hasTable
       THEN /\ resp' = NoTable
            /\ UNCHANGED <<rows, createdIds, deletedSince, titleOnly, nInserts>>
       ELSE LET d == ToDoSchema_dict(body, NoRow)
                newId == NextRowid(rows)
                tbl == insert(rows, d)
            IN /\ rows' = tbl
               /\ nInserts' = nInserts + 1
               /\ resp' = Respond(<<CHOOSE r \in first(tbl, newId) : TRUE>>)
               /\ createdIds' = IF resp'.status = 200 THEN Append(createdIds, newId)
                                ELSE createdIds
               /\ deletedSince' = {}
               /\ titleOnly' = {p \in titleOnly : p.id # newId} \cup
                     (IF body.description = {} /\ body.completed = {}
                      THEN {[id |-> newId, title |-> d.title]} ELSE {})
    /\ Session(resp'.status)
    /\ UNCHANGED <<nDeleted, envVars, concVars>>

\* GET /todos/  (src/main.py 53-55)
get_todos ==
    /\ req' = [op |-> "list", id |-> 0, body |-> NoBody]
    /\ resp' = IF hasTable THEN Respond(all(rows)) ELSE NoTable
    /\ Session(resp'.status)
    /\ UNCHANGED <<rows, createdIds, nDeleted, deletedSince, titleOnly, nInserts,
                   envVars, concVars>>

\* GET /todos/{todo_id}  (src/main.py 58-63)
get_todo(todo_id) ==
    /\ req' = [op |-> "get", id |-> todo_id, body |-> NoBody]
    /\ LET t == first(rows, todo_id)
       IN resp' = IF ~hasTable THEN NoTable
                  ELSE IF t = {} THEN NotFound
                  ELSE Respond(<<CHOOSE r \in t : TRUE>>)
    /\ Session(resp'.status)
    /\ UNCHANGED <<rows, createdIds, nDeleted, deletedSince, titleOnly, nInserts,
                   envVars, concVars>>

\* PUT /todos/{todo_id}  (src/main.py 66-75)
update_todo(todo_id, body) ==
    /\ req' = [op |-> "put", id |-> todo_id, body |-> body]
    /\ IF ~ToDoSchema_valid(body)
       THEN /\ resp' = Invalid
            /\ UNCHANGED <<rows, titleOnly>>
       ELSE IF ~hasTable
       THEN /\ resp' = NoTable
            /\ UNCHANGED <<rows, titleOnly>>
       ELSE LET t == first(rows, todo_id)
            IN IF t = {}
               THEN /\ resp' = NotFound
                    /\ UNCHANGED <<rows, titleOnly>>
               ELSE LET loaded == CHOOSE r \in t : TRUE
                        obj == setattr_all(loaded, ToDoSchema_dict(body, loaded))
                        tbl == flush_update(rows, loaded, obj)
                    IN /\ rows' = tbl
                       /\ resp' = Respond(<<CHOOSE r \in first(tbl, loaded.id) : TRUE>>)
                       /\ titleOnly' = {p \in titleOnly : p.id # todo_id}
    /\ Session(resp'.status)
    /\ UNCHANGED <<createdIds, nDeleted, deletedSince, nInserts, envVars, concVars>>

\* DELETE /todos/{todo_id}  (src/main.py 78-85)
delete_todo(todo_id) ==
    /\ req' = [op |-> "delete", id |-> todo_id, body |-> NoBody]
    /\ LET t == first(rows, todo_id)
       IN IF ~hasTable
          THEN /\ resp' = NoTable
               /\ UNCHANGED <<rows, nDeleted, deletedSince, titleOnly>>
          ELSE IF t = {}
          THEN /\ resp' = NotFound
               /\ UNCHANGED <<rows, nDeleted, deletedSince, titleOnly>>
          ELSE /\ rows' = flush_delete(rows, CHOOSE r \in t : TRUE)
               /\ resp' = Deleted
               /\ nDeleted' = nDeleted + 1
               /\ deletedSince' = deletedSince \cup {todo_id}
               /\ titleOnly' = {p \in titleOnly : p.id # todo_id}
    /\ Session(resp'.status)
    /\ UNCHANGED <<createdIds, nInserts, envVars, concVars>>

Create == \E body \in Bodies : create_todo(body)
List == get_todos
Get == \E i \in Ids : get_todo(i)
Update == \E i \in Ids, body \in Bodies : update_todo(i, body)
Delete == \E i \in Ids : delete_todo(i)

Next == Create \/ List \/ Get \/ Update \/ Delete

Spec == Init /\ [][Next]_vars

\* ------------------------------------- the handlers on concurrent threads

ConcRequests ==
    {[op |-> "post", id |-> 0, body |-> b] : b \in ConcBodies}
    \cup {[op |-> "put", id |-> i, body |-> b] : i \in ConcIds, b \in ConcBodies}
    \cup {[op |-> o, id |-> i, body |-> NoBody] : o \in {"get", "delete"}, i \in ConcIds}
    \cup {[op |-> "list", id |-> 0, body |-> NoBody]}

Finish(w, r) ==
    /\ wresp' = [wresp EXCEPT ![w] = r]
    /\ pc' = [pc EXCEPT ![w] = "exit"]

\* The dispatcher resolves get_db (the session is opened), then validates
\* the body; an invalid body never reaches the handler.
Begin(w) ==
    /\ pc[w] = "idle"
    /\ started < MaxRequests
    /\ \E r \in ConcRequests :
         /\ wreq' = [wreq EXCEPT ![w] = r]
         /\ IF r.op \in {"post", "put"} /\ ~ToDoSchema_valid(r.body)
            THEN Finish(w, Invalid)
            ELSE /\ pc' = [pc EXCEPT ![w] = "handler"]
                 /\ wresp' = [wresp EXCEPT ![w] = NoResp]
    /\ started' = started + 1
    /\ open' = get_db_enter(open, w)
    /\ UNCHANGED <<rows, todo, closed, seqVars, envVars>>

\* get_todos and get_todo: one SELECT, then return (src/main.py 55, 60-63).
Read(w) ==
    /\ pc[w] = "handler"
    /\ wreq[w].op \in {"get", "list"}
    /\ IF ~hasTable
       THEN Finish(w, NoTable)
       ELSE IF wreq[w].op = "list"
       THEN Finish(w, Respond(all(rows)))
       ELSE LET t == first(rows, wreq[w].id)
            IN Finish(w, IF t = {} THEN NotFound
                         ELSE Respond(<<CHOOSE r \in t : TRUE>>))
    /\ UNCHANGED <<rows, open, wreq, todo, started, closed, seqVars, envVars>>

\* The lookup of update_todo and delete_todo (src/main.py 68-70, 80-82).
Lookup(w) ==
    /\ pc[w] = "handler"
    /\ wreq[w].op \in {"put", "delete"}
    /\ LET t == first(rows, wreq[w].id)
       IN IF ~hasTable \/ t = {}
          THEN /\ Finish(w, IF hasTable THEN NotFound ELSE NoTable)
               /\ UNCHANGED todo
          ELSE /\ todo' = [todo EXCEPT ![w] = t]
               /\ pc' = [pc EXCEPT ![w] = "commit"]
               /\ UNCHANGED wresp
    /\ UNCHANGED <<rows, open, wreq, started, closed, seqVars, envVars>>

\* db.add(db_todo); db.commit() of create_todo (src/main.py 46-48).
CommitCreate(w) ==
    /\ pc[w] = "handler"
    /\ wreq[w].op = "post"
    /\ IF ~hasTable
       THEN /\ Finish(w, NoTable)
            /\ UNCHANGED <<rows, todo>>
       ELSE LET tbl == insert(rows, ToDoSchema_dict(wreq[w].body, NoRow))
            IN /\ rows' = tbl
               /\ todo' = [todo EXCEPT ![w] = first(tbl, NextRowid(rows))]
               /\ pc' = [pc EXCEPT ![w] = "refresh"]
               /\ UNCHANGED wresp
    /\ UNCHANGED <<open, wreq, started, closed, seqVars, envVars>>

\* setattr per field; db.commit() of update_todo (src/main.py 71-73).
CommitUpdate(w) ==
    /\ pc[w] = "commit"
    /\ wreq[w].op = "put"
    /\ LET loaded == CHOOSE r \in todo[w] : TRUE
           obj == setattr_all(loaded, ToDoSchema_dict(wreq[w].body, loaded))
       IN IF flush_stale(rows, loaded, obj)
          THEN /\ Finish(w, Fault("StaleDataError"))
               /\ UNCHANGED rows
          ELSE /\ rows' = flush_update(rows, loaded, obj)
               /\ pc' = [pc EXCEPT ![w] = "refresh"]
               /\ UNCHANGED wresp
    /\ UNCHANGED <<open, wreq, todo, started, closed, seqVars, envVars>>

\* db.delete(todo); db.commit(); return the message (src/main.py 83-85).
\* A DELETE that matches no row is only warned about.
CommitDelete(w) ==
    /\ pc[w] = "commit"
    /\ wreq[w].op = "delete"
    /\ rows' = flush_delete(rows, CHOOSE r \in todo[w] : TRUE)
    /\ Finish(w, Deleted)
    /\ UNCHANGED <<open, wreq, todo, started, closed, seqVars, envVars>>

\* db.refresh(...) and return (src/main.py 49-50, 74-75): the row is read
\* again by its id; a row that is gone cannot be refreshed.
Refresh(w) ==
    /\ pc[w] = "refresh"
    /\ LET t == first(rows, (CHOOSE r \in todo[w] : TRUE).id)
       IN Finish(w, IF t = {} THEN Fault("InvalidRequestError")
                    ELSE Respond(<<CHOOSE r \in t : TRUE>>))
    /\ UNCHANGED <<rows, open, wreq, todo, started, closed, seqVars, envVars>>

\* A statement fails in the storage engine; the error propagates.
StorageFault(w) ==
    /\ pc[w] \in {"handler", "commit", "refresh"}
    /\ Finish(w, Fault("storage"))
    /\ UNCHANGED <<rows, open, wreq, todo, started, closed, seqVars, envVars>>

\* The rest of get_db runs when the request is over (src/main.py 18-19);
\* the thread is then free, and keeps nothing of the request.
Exit(w) ==
    /\ pc[w] = "exit"
    /\ open' = get_db_finally(open, w, wresp[w].status)
    /\ closed' = closed \cup {wresp[w].status}
    /\ pc' = [pc EXCEPT ![w] = "idle"]
    /\ wreq' = [wreq EXCEPT ![w] = NoReq]
    /\ wresp' = [wresp EXCEPT ![w] = NoResp]
    /\ todo' = [todo EXCEPT ![w] = {}]
    /\ UNCHANGED <<rows, started, seqVars, envVars>>

ConcNext ==
    \E w \in Workers :
        \/ Begin(w)
        \/ Read(w)
        \/ Lookup(w)
        \/ CommitCreate(w)
        \/ CommitUpdate(w)
        \/ CommitDelete(w)
        \/ Refresh(w)
        \/ StorageFault(w)
        \/ Exit(w)

\* The threads start on a database file that holds no rows.
InitConc == Init /\ persisted = {}

SpecConc == InitConc /\ [][ConcNext]_vars

\* ------------------------------------------------------------ properties

\* The row a body stands for under id i: its title, and description = None
\* and completed = False where the body omits them.
RowOf(i, body) ==
    [id          |-> i,
     title       |-> CHOOSE t \in body.title : TRUE,
     description |-> IF body.description = {} THEN None ELSE CHOOSE d \in body.description : TRUE,
     completed   |-> IF body.completed = {} THEN FALSE ELSE CHOOSE c \in body.completed : TRUE]

\* C1: the id returned by a Create differs from the id returned by every
\* earlier Create, also when the earlier row has been deleted since.
C1_IdsNeverReused ==
    \A i, j \in 1..Len(createdIds) : i # j => createdIds[i] # createdIds[j]

\* C2: Get, Update (with a valid body) and Delete on an id that no stored
\* row has return 404 "To-Do not found" and leave the table as it was.
C2_NotFoundLeavesRows ==
    [][(/\ req'.op \in {"get", "put", "delete"}
        /\ req'.id \notin {r.id : r \in rows}
        /\ (req'.op = "put" => req'.body.title \notin {{}, {None}}))
       => (/\ resp'.status = 404
           /\ resp'.detail = "To-Do not found"
           /\ rows' = rows)]_vars

\* C3: a PUT of a valid body P on the id i of a stored row leaves the row
\* of id i equal to P, with description = None and completed = False where
\* P omits them, whatever the row held; a response that carries a row
\* carries that one; the same PUT served again right after changes nothing.
C3_PutReplaces ==
    [][/\ (/\ req'.op = "put"
           /\ req'.body.title \notin {{}, {None}}
           /\ req'.id \in {r.id : r \in rows})
          => (/\ {r \in rows' : r.id = req'.id} = {RowOf(req'.id, req'.body)}
              /\ resp'.status = 200 => resp'.rows = <<RowOf(req'.id, req'.body)>>)
       /\ (req.op = "put" /\ resp.status \in {200, 500} /\ req' = req)
          => (rows' = rows /\ resp' = resp)]_vars

C3_Witness ==
    /\ req.op = "put"
    /\ resp.status = 200
    /\ req.body.description = {}
    /\ req.body.completed = {}
    /\ RowOf(req.id, req.body) \in rows
    /\ \E r \in persisted : r.id = req.id /\ r.completed /\ r.description = "d"

\* C4: after a successful Delete of id i, with no Create since, no row has
\* id i, Get on i returns 404 and List does not return a row of id i.
C4_DeletedStaysGone ==
    /\ \A i \in deletedSince : i \notin {r.id : r \in rows}
    /\ (req.op = "get" /\ req.id \in deletedSince)
          => (resp.status = 404 /\ resp.detail = "To-Do not found")
    /\ req.op = "list"
          => \A k \in 1..Len(resp.rows) : resp.rows[k].id \notin deletedSince

C4_Witness ==
    /\ req.op = "get"
    /\ req.id \in deletedSince
    /\ resp.status = 404

\* C5: from the empty table, after N successful Creates and M successful
\* Deletes the table holds N - M rows and List returns N - M rows.
C5_ListCount ==
    (hasTable /\ persisted = {})
    => /\ Cardinality(rows) = Len(createdIds) - nDeleted
       /\ req.op = "list"
             => (resp.status = 200 /\ Len(resp.rows) = Len(createdIds) - nDeleted)

\* C6: a Create from a body with a title only stores and returns the row
\* with description = None and completed = False; until that row is updated
\* or deleted, Get on its id returns these values and the given title.
C6_CreateDefaults ==
    /\ \A p \in titleOnly :
          [id |-> p.id, title |-> p.title, description |-> None, completed |-> FALSE] \in rows
    /\ (/\ req.op = "post"
        /\ req.body.title \notin {{}, {None}}
        /\ req.body.description = {}
        /\ req.body.completed = {})
          => (/\ resp.status = 200
              /\ Len(resp.rows) = 1
              /\ resp.rows = <<RowOf(resp.rows[1].id, req.body)>>
              /\ resp.rows[1] \in rows)
    /\ \A p \in titleOnly :
          (req.op = "get" /\ req.id = p.id)
             => resp.rows = <<[id |-> p.id, title |-> p.title, description |-> None,
                               completed |-> FALSE]>>

\* C7: every stored row has a title that is not None; a Create or Update
\* whose body has no title (the key is absent or null) is rejected (422)
\* and changes no row.
C7_TitleNotNull ==
    /\ [](\A r \in rows : r.title # None)
    /\ [][(req'.op \in {"post", "put"} /\ req'.body.title \in {{}, {None}})
          => (resp'.status = 422 /\ rows' = rows)]_vars

C7_Witness ==
    /\ req.op = "put"
    /\ req.body.title = {}
    /\ req.id \in {r.id : r \in rows}
    /\ resp.status = 422

\* C8: a thread holds an open session exactly while it serves a request:
\* the session is closed when the request is over, whatever its outcome,
\* and when no request is being served no session is open.
C8_SessionsClosed ==
    /\ \A w \in Workers : w \in open <=> pc[w] # "idle"
    /\ (\A w \in Workers : pc[w] = "idle") => open = {}

C8_Witness ==
    /\ \A w \in Workers : pc[w] = "idle"
    /\ {200, 404, 500} \subseteq closed
    /\ open = {}

\* C9: an Update that runs concurrently with other requests ends as it does
\* in a serial order: with the response to the row its body stands for, or
\* with 404 (or with the fault of a failing storage engine), never with
\* another outcome.
C9_UpdateAtomic ==
    \A w \in Workers :
        (/\ pc[w] = "exit"
         /\ wreq[w].op = "put"
         /\ wresp[w].status \notin {0, 422}
         /\ wresp[w].detail \notin {"storage", "OperationalError"})
        => \/ wresp[w] = NotFound
           \/ wresp[w] = Respond(<<RowOf(wreq[w].id, wreq[w].body)>>)

\* C10: an Update of id i keeps the ids of the table and every row of
\* another id; a successful Delete of id i removes the row of id i and no
\* other; Create keeps every existing row; Get and List change no row.
C10_Frame ==
    [][/\ req'.op = "put"
          => (/\ {r.id : r \in rows'} = {r.id : r \in rows}
              /\ Cardinality(rows') = Cardinality(rows)
              /\ \A r \in rows : r.id # req'.id => r \in rows')
       /\ (req'.op = "delete" /\ resp'.status = 200)
          => rows' = {r \in rows : r.id # req'.id}
       /\ req'.op = "post" => rows \subseteq rows'
       /\ req'.op \in {"get", "list"} => rows' = rows]_vars

C10_Witness ==
    /\ req.op = "put"
    /\ resp.status = 200
    /\ Cardinality(rows) = 2
    /\ \E r \in rows : r.id # req.id /\ r.completed /\ r.description = "d"

====
